---- MODULE Spec2Model ----
(***************************************************************************)
(* Model of the Landmark scraper: LandmarkScraper.execute() and            *)
(* scrapeSingleDay() of src/stagehand-automation-5.ts, and                 *)
(* S3Uploader.uploadFile() of src/lib/s3-upload.ts.                        *)
(*                                                                         *)
(* JavaScript strings are sequences of one-character strings, so that      *)
(* parsing, padding, replacing and truthiness ("" is falsy) are computed   *)
(* and not assumed.  An optional field (s3Path?, error?) is a sequence of  *)
(* zero or one values: << >> is undefined, <<v>> is the value v.           *)
(***************************************************************************)
EXTENDS Integers, Sequences, FiniteSets, TLC

\* ------------------------------------------------------------------ bounds

\* Longest date range (in days) a configuration spans.
MaxSpan == 2
\* Largest number of planned work units of a configuration.
MaxUnits == 4
\* Clock ticks in one UTC day (the wall clock is counted in coarse ticks).
TicksPerDay == 8

\* ----------------------------------------------------------------- strings

Digits == <<"0", "1", "2", "3", "4", "5", "6", "7", "8", "9">>

DigitVal(c) == CHOOSE i \in 0..9 : Digits[i + 1] = c

\* Number.prototype.toString() of a non-negative integer.
RECURSIVE NumToString(_)
NumToString(n) ==
    IF n < 10 THEN <<Digits[n + 1]>>
    ELSE NumToString(n \div 10) \o <<Digits[(n % 10) + 1]>>

\* String.prototype.padStart(n, '0').
RECURSIVE padStart(_, _)
padStart(s, n) == IF Len(s) >= n THEN s ELSE padStart(<<"0">> \o s, n)

\* String.prototype.replace(/\//g, '-'): every slash becomes a hyphen.
RECURSIVE replaceSlashes(_)
replaceSlashes(s) ==
    IF s = << >> THEN << >>
    ELSE <<IF Head(s) = "/" THEN "-" ELSE Head(s)>> \o replaceSlashes(Tail(s))

\* String.prototype.replace(/\s+/g, '-'): every run of blanks becomes one
\* hyphen.
RECURSIVE replaceBlanks(_)
replaceBlanks(s) ==
    IF s = << >> THEN << >>
    ELSE IF Head(s) = " "
         THEN IF Tail(s) # << >> /\ Head(Tail(s)) = " "
              THEN replaceBlanks(Tail(s))
              ELSE <<"-">> \o replaceBlanks(Tail(s))
         ELSE <<Head(s)>> \o replaceBlanks(Tail(s))

\* A JavaScript string is truthy unless it is empty; undefined is falsy.
Truthy(opt) == opt # << >> /\ opt[1] # << >>

\* ------------------------------------------------------------------- dates
\* A Date is its time value, counted in whole days since 1970-01-01: the
\* scraper only builds dates at local midnight and moves them by whole days.

\* MakeDay(year, month, date) of a Date, month 1..12; a date past the end of
\* the month runs over into the next one.
DaysFromCivil(y, m, d) ==
    LET yy  == IF m <= 2 THEN y - 1 ELSE y
        era == yy \div 400
        yoe == yy - era * 400
        mp  == (m + 9) % 12
        doy == (153 * mp + 2) \div 5 + d - 1
        doe == yoe * 365 + yoe \div 4 - yoe \div 100 + doy
    IN  era * 146097 + doe - 719468

\* The calendar fields of a time value: [y, m, d], month 1..12.
CivilFromDays(t) ==
    LET z   == t + 719468
        era == z \div 146097
        doe == z - era * 146097
        yoe == (doe - doe \div 1460 + doe \div 36524 - doe \div 146096) \div 365
        doy == doe - (365 * yoe + yoe \div 4 - yoe \div 100)
        mp  == (5 * doy + 2) \div 153
        d   == doy - (153 * mp + 2) \div 5 + 1
        m   == IF mp < 10 THEN mp + 3 ELSE mp - 9
        y   == yoe + era * 400 + (IF m <= 2 THEN 1 ELSE 0)
    IN  [y |-> y, m |-> m, d |-> d]

\* Date.prototype.getFullYear(), getMonth() (0..11) and getDate().
getFullYear(t) == CivilFromDays(t).y
getMonth(t) == CivilFromDays(t).m - 1
getDate(t) == CivilFromDays(t).d

\* Date.prototype.setDate(n): day n of the date's month, running over.
setDate(t, n) == DaysFromCivil(getFullYear(t), getMonth(t) + 1, n)

\* new Date("MM/DD/YYYY").
NewDate(s) ==
    LET month == 10 * DigitVal(s[1]) + DigitVal(s[2])
        day   == 10 * DigitVal(s[4]) + DigitVal(s[5])
        year  == 1000 * DigitVal(s[7]) + 100 * DigitVal(s[8])
                 + 10 * DigitVal(s[9]) + DigitVal(s[10])
    IN  DaysFromCivil(year, month, day)

\* Mutant: the month is written as getMonth() gives it, from 0.
FormatDate_ZeroBasedMonth(date) ==
    LET month == padStart(NumToString(getMonth(date)), 2)
        day   == padStart(NumToString(getDate(date)), 2)
        year  == NumToString(getFullYear(date))
    IN  month \o <<"/">> \o day \o <<"/">> \o year

\* `${month}/${day}/${year}` of the loop body of generateDateRange.
FormatDate(date) ==
    LET month == padStart(NumToString(getMonth(date) + 1), 2)
        day   == padStart(NumToString(getDate(date)), 2)
        year  == NumToString(getFullYear(date))
    IN  month \o <<"/">> \o day \o <<"/">> \o year

\* The for loop of generateDateRange.
RECURSIVE DateLoop(_, _, _)
DateLoop(date, end, dates) ==
    IF date <= end
    THEN DateLoop(setDate(date, getDate(date) + 1), end,
                  Append(dates, FormatDate(date)))
    ELSE dates

\* Mutant: the loop stops before endDate (date < end).
generateDateRange_ExclusiveEnd(startDate, endDate) ==
    DateLoop(NewDate(startDate), NewDate(endDate) - 1, << >>)

generateDateRange(startDate, endDate) ==
    DateLoop(NewDate(startDate), NewDate(endDate), << >>)

\* ------------------------------------------------------------------ inputs

MDY(mm, dd, yyyy) == mm \o <<"/">> \o dd \o <<"/">> \o yyyy

Y2023 == <<"2", "0", "2", "3">>
Y2024 == <<"2", "0", "2", "4">>

\* Runs of consecutive calendar days, written out: one from the last day of
\* a year, one over the leap day and the end of February.
Calendar ==
    << << MDY(<<"1", "2">>, <<"3", "1">>, Y2023),
          MDY(<<"0", "1">>, <<"0", "1">>, Y2024),
          MDY(<<"0", "1">>, <<"0", "2">>, Y2024),
          MDY(<<"0", "1">>, <<"0", "3">>, Y2024),
          MDY(<<"0", "1">>, <<"0", "4">>, Y2024),
          MDY(<<"0", "1">>, <<"0", "5">>, Y2024) >>,
       << MDY(<<"0", "2">>, <<"2", "8">>, Y2024),
          MDY(<<"0", "2">>, <<"2", "9">>, Y2024),
          MDY(<<"0", "3">>, <<"0", "1">>, Y2024),
          MDY(<<"0", "3">>, <<"0", "2">>, Y2024),
          MDY(<<"0", "3">>, <<"0", "3">>, Y2024),
          MDY(<<"0", "3">>, <<"0", "4">>, Y2024) >> >>

DEED ==
    <<"D", "E", "E", "D">>
QUITCLAIM_DEED ==
    <<"Q", "U", "I", "T", "C", "L", "A", "I", "M", " ", "D", "E",
      "E", "D">>

\* The documentTypes arrays: empty, one type, two types, one type twice.
TypeLists == {<< >>, <<DEED>>, <<QUITCLAIM_DEED, DEED>>, <<DEED, DEED>>}

King ==
    <<"k", "i", "n", "g">>

\* Messages of the errors the browser and the store raise; new Error() has
\* the empty message.
TimeoutMessage ==
    <<"t", "i", "m", "e", "o", "u", "t">>
Messages == {<< >>, TimeoutMessage}

\* ---------------------------------------------------------- S3Uploader

BucketName ==
    <<"r", "e", "c", "o", "r", "d", "s">>
S3Scheme ==
    <<"s", "3", ":", "/", "/">>
KeyPrefix ==
    <<"l", "a", "n", "d", "m", "a", "r", "k", "-", "s", "c", "r",
      "a", "p", "e", "r", "/">>
UploadErrorPrefix ==
    <<"F", "a", "i", "l", "e", "d", " ", "t", "o", " ", "u", "p",
      "l", "o", "a", "d", " ", "t", "o", " ", "S", "3", ":", " ">>
NoRecords ==
    <<"n", "o", "-", "r", "e", "c", "o", "r", "d", "s">>
CsvSuffix ==
    <<".", "c", "s", "v">>

\* new Date().toISOString().split("T")[0] at clock reading t.
dateFolder(t) ==
    LET c == CivilFromDays(t \div TicksPerDay)
    IN  padStart(NumToString(c.y), 4) \o <<"-">> \o padStart(NumToString(c.m), 2)
        \o <<"-">> \o padStart(NumToString(c.d), 2)

\* The object key of uploadFile at clock reading t.
S3Key(fileName, t) ==
    KeyPrefix \o dateFolder(t) \o <<"/">> \o NumToString(t) \o <<"-">> \o fileName

\* Mutant: the locator returned names the file, not the key written.
uploadFile_LocatorOfFileName(fileName, t, sendError) ==
    IF sendError = << >>
    THEN [threw |-> FALSE,
          value |-> S3Scheme \o BucketName \o <<"/">> \o fileName]
    ELSE [threw |-> TRUE, value |-> UploadErrorPrefix \o sendError[1]]

\* uploadFile(fileBuffer, fileName) at clock reading t.  sendError is the
\* error of s3Client.send, if it raises one.  The result is the locator
\* returned, or the Error thrown.
uploadFile(fileName, t, sendError) ==
    IF sendError = << >>
    THEN [threw |-> FALSE,
          value |-> S3Scheme \o BucketName \o <<"/">> \o S3Key(fileName, t)]
    ELSE [threw |-> TRUE, value |-> UploadErrorPrefix \o sendError[1]]

\* ------------------------------------------------------- scrapeSingleDay

\* What the site and the session do during one call of scrapeSingleDay:
\* whether the "Document Search" link is visible, what the "no records
\* found" probe answers ("throws": the probe itself fails), whether the
\* Export link is visible, which step raises an error if it is reached, and
\* the message of that error.
UnitSteps ==
    <<"linkVisible", "linkClick", "fillDocumentType", "fillBeginDate",
      "fillEndDate", "submit", "noRecordsVisible", "exportVisible",
      "exportClick", "waitForDownload", "modalClick", "download",
      "readStream", "uploadFile", "goBack">>

\* The steps whose error reaches the catch of scrapeSingleDay: the
\* "no records found" probe has its own .catch(() => false), and
\* page.waitForEvent only returns a promise.
Throwing ==
    {UnitSteps[k] : k \in 1..Len(UnitSteps)} \ {"noRecordsVisible", "waitForDownload"}

AllEnvs ==
    [link : BOOLEAN, noRecords : {"visible", "hidden", "throws"},
     export : BOOLEAN, throwAt : Throwing \cup {"none"}, message : Messages]

\* const noResultsText = await ...isVisible({ timeout: 3000 }).catch(() => false)
noResultsText(env) == env.noRecords = "visible"

\* Mutant: the check of the Export link (lines 133-136) is missing.
ScriptPath_NoExportCheck(env) ==
    <<"linkVisible">>
    \o (IF env.link THEN <<"linkClick">> ELSE << >>)
    \o <<"fillDocumentType", "fillBeginDate", "fillEndDate", "submit",
         "noRecordsVisible">>
    \o (IF noResultsText(env) THEN << >>
        ELSE <<"exportVisible", "exportClick", "waitForDownload",
               "modalClick", "download", "readStream", "uploadFile", "goBack">>)

\* The steps of the script in the order of the code, were none to throw.
ScriptPath(env) ==
    <<"linkVisible">>
    \o (IF env.link THEN <<"linkClick">> ELSE << >>)
    \o <<"fillDocumentType", "fillBeginDate", "fillEndDate", "submit",
         "noRecordsVisible">>
    \o (IF noResultsText(env) THEN << >>
        ELSE <<"exportVisible">>
             \o (IF ~env.export THEN << >>
                 ELSE <<"exportClick", "waitForDownload", "modalClick",
                        "download", "readStream", "uploadFile", "goBack">>))

\* The position of the step that throws, 0 if none does.
ThrowPos(env) ==
    LET path == ScriptPath(env)
        at   == {k \in 1..Len(path) : path[k] = env.throwAt}
    IN  IF at = {} THEN 0 ELSE CHOOSE k \in at : TRUE

\* The steps executed: all of the path, or up to the step that throws.
StepsDone(env) ==
    IF ThrowPos(env) = 0 THEN ScriptPath(env)
    ELSE SubSeq(ScriptPath(env), 1, ThrowPos(env))

Ran(steps, name) == \E k \in 1..Len(steps) : steps[k] = name

\* The environments, each behaviour once: the step that throws is on the
\* path, and what is never asked has one value.  The error of the store
\* carries a message.
Envs ==
    {env \in AllEnvs :
        /\ env.throwAt = "uploadFile" => env.message = TimeoutMessage
        /\ env.throwAt = "none" => env.message = << >>
        /\ env.throwAt # "none" => ThrowPos(env) # 0
        /\ env.noRecords = "visible" => ~env.export
        /\ env.throwAt = "linkVisible" => ~env.link
        /\ env.throwAt \in {"linkVisible", "linkClick", "fillDocumentType",
                            "fillBeginDate", "fillEndDate", "submit"}
             => env.noRecords = "hidden"
        /\ env.throwAt = "exportVisible" => ~env.export}

fileNameOf(county, documentType, date) ==
    county \o <<"-">> \o replaceBlanks(documentType) \o <<"-">>
    \o replaceSlashes(date) \o CsvSuffix

\* Mutant: an empty message is returned as no error (message || undefined).
CatchUnit_DropsEmptyMessage(message) ==
    [success |-> FALSE, s3Path |-> << >>,
     error |-> IF message = << >> THEN << >> ELSE <<message>>]

\* catch (error) { return { success: false, error: error.message } }
CatchUnit(message) ==
    [success |-> FALSE, s3Path |-> << >>, error |-> <<message>>]

\* scrapeSingleDay(page, date, documentType) at clock reading t:
\*   returned  the value returned,
\*   steps     the steps executed,
\*   put       the key written to the bucket, if one was,
\*   orphaned  a download promise was left without a handler (modalClick
\*             threw between page.waitForEvent and await downloadPromise).
scrapeSingleDay(county, date, documentType, t, env) ==
    LET steps    == StepsDone(env)
        threw    == ThrowPos(env) # 0
        fileName == fileNameOf(county, documentType, date)
        sendErr  == IF env.throwAt = "uploadFile" THEN <<env.message>> ELSE << >>
        up       == uploadFile(fileName, t, sendErr)
        uploaded == Ran(steps, "uploadFile") /\ ~up.threw
        returned ==
            IF threw
            THEN CatchUnit(IF env.throwAt = "uploadFile" THEN up.value
                           ELSE env.message)
            ELSE IF noResultsText(env) \/ ~env.export
                 THEN [success |-> TRUE, s3Path |-> <<NoRecords>>, error |-> << >>]
                 ELSE [success |-> TRUE, s3Path |-> <<up.value>>, error |-> << >>]
    IN  [returned |-> returned,
         steps    |-> steps,
         put      |-> IF uploaded THEN <<S3Key(fileName, t)>> ELSE << >>,
         orphaned |-> threw /\ env.throwAt = "modalClick"]

\* --------------------------------------------------------------- execute

VARIABLES
    config,          \* this.config
    pc,              \* where execute() is: "start", "goto", "loop", "delay",
                     \* "close", "catch", "done" (returned) or "crashed"
    now,             \* the wall clock, in ticks
    dates,           \* const dates (line 206), << >> before it is computed
    di, ti,          \* the positions of the two for loops (lines 211, 213)
    results,         \* const results (line 187)
    ret,             \* the value execute() returned: << >> until it returns
    caught,          \* the step whose error the catch of line 245 caught
    sessionOpened,   \* stagehand.init() succeeded
    navigated,       \* page.goto() was called
    closeAttempts,   \* number of calls of stagehand.close()
    closeLogged,     \* "Failed to close Stagehand" was logged (line 252)
    dispatched,      \* the loop positions handed to scrapeSingleDay, in order
    lastCall,        \* the call of scrapeSingleDay whose result was just
                     \* pushed: its steps, its result
    objects,         \* the keys written to the bucket, in order
    pendingDownload, \* a download promise without a handler is pending
    request,         \* req of the handler: its method and its body
    response,        \* the response the handler sent: << >> until it answers
    constructed,     \* new LandmarkScraper(config) was evaluated
    lastEnv,         \* what the page and the bucket do during lastCall
    uploads          \* the calls of uploadFile that returned, of every run
                     \* sharing the bucket: run, clock reading, file name,
                     \* locator returned

vars ==
    <<config, pc, now, dates, di, ti, results, ret, caught, sessionOpened,
      navigated, closeAttempts, closeLogged, dispatched, lastCall, objects,
      pendingDownload, request, response, constructed, lastEnv, uploads>>

\* The configurations: startDate and endDate from one run of the calendar
\* (endDate may precede startDate) and a documentTypes array; the ranges
\* over the leap day are run with at most one document type.
ConfigChoices ==
    {p \in (1..Len(Calendar)) \X (1..MaxSpan) \X (1..MaxSpan) \X TypeLists :
        p[1] > 1 => Len(p[4]) <= 1}

Configs ==
    {[startDate |-> Calendar[p[1]][p[2]], endDate |-> Calendar[p[1]][p[3]],
      documentTypes |-> p[4], county |-> King] : p \in ConfigChoices}

\* The days from startDate to endDate inclusive, read off the calendar.
CalendarDays(cfg) ==
    LET where == CHOOSE p \in (1..Len(Calendar)) \X (1..MaxSpan) \X (1..MaxSpan) :
                     /\ Calendar[p[1]][p[2]] = cfg.startDate
                     /\ Calendar[p[1]][p[3]] = cfg.endDate
    IN  SubSeq(Calendar[where[1]], where[2], where[3])

Planned(cfg) == Len(CalendarDays(cfg)) * Len(cfg.documentTypes)

\* The clock when the run starts: late on 2024-03-05 (UTC).
StartClock == DaysFromCivil(2024, 3, 5) * TicksPerDay + TicksPerDay - 2

NoCall == [steps |-> << >>, returned |-> << >>]

\* execute() called by a caller other than the handler.
NoRequest == [method |-> << >>, body |-> << >>]

Init ==
    /\ config \in {c \in Configs : Planned(c) <= MaxUnits}
    /\ pc = "start"
    /\ now = StartClock
    /\ dates = << >>
    /\ di = 1
    /\ ti = 1
    /\ results = << >>
    /\ ret = << >>
    /\ caught = "none"
    /\ sessionOpened = FALSE
    /\ navigated = FALSE
    /\ closeAttempts = 0
    /\ closeLogged = FALSE
    /\ dispatched = << >>
    /\ lastCall = NoCall
    /\ objects = << >>
    /\ pendingDownload = FALSE
    /\ request = NoRequest
    /\ response = << >>
    /\ constructed = TRUE
    /\ lastEnv = << >>
    /\ uploads = << >>

\* results.filter(r => r.s3Path && !r.error).length
CountSuccessful(rs) ==
    Cardinality({k \in 1..Len(rs) : Truthy(rs[k].s3Path) /\ ~Truthy(rs[k].error)})

\* results.filter(r => r.error).length
CountFailed(rs) ==
    Cardinality({k \in 1..Len(rs) : Truthy(rs[k].error)})

\* Mutant: success is reported only when no unit failed.
ReturnSuccess_FalseWhenUnitsFailed(rs) ==
    [success |-> CountFailed(rs) = 0, results |-> rs,
     summary |-> [total |-> Len(rs), successful |-> CountSuccessful(rs),
                  failed |-> CountFailed(rs)]]

\* The value returned at lines 235-243.
ReturnSuccess(rs) ==
    [success |-> TRUE, results |-> rs,
     summary |-> [total |-> Len(rs), successful |-> CountSuccessful(rs),
                  failed |-> CountFailed(rs)]]

\* Mutant: the aborting error is not counted.
ReturnFailure_NoExtra(rs) ==
    [success |-> FALSE, results |-> rs,
     summary |-> [total |-> Len(rs), successful |-> CountSuccessful(rs),
                  failed |-> CountFailed(rs)]]

\* Mutant: the catch returns a fresh, empty list.
ReturnFailure_DropsResults(rs) ==
    [success |-> FALSE, results |-> << >>,
     summary |-> [total |-> 0, successful |-> 0, failed |-> 1]]

\* The value returned at lines 255-263.
ReturnFailure(rs) ==
    [success |-> FALSE, results |-> rs,
     summary |-> [total |-> Len(rs), successful |-> CountSuccessful(rs),
                  failed |-> CountFailed(rs) + 1]]

\* The two for loops: is there a unit at position (d, t), and the position
\* after it.
\* Mutant: the inner loop stops one document type early.
HasUnit_SkipsLast(d, t) == d <= Len(dates) /\ t < Len(config.documentTypes)

HasUnit(d, t) == d <= Len(dates) /\ t <= Len(config.documentTypes)

\* Mutant: a unit that failed is dispatched again.
NextPosition_RetriesFailed(d, t) ==
    IF results # << >> /\ Truthy(results[Len(results)].error) THEN <<d, t>>
    ELSE IF t < Len(config.documentTypes) THEN <<d, t + 1>> ELSE <<d + 1, 1>>

NextPosition(d, t) ==
    IF t < Len(config.documentTypes) THEN <<d, t + 1>> ELSE <<d + 1, 1>>

\* The entry pushed at lines 216-221.
ResultEntry(date, documentType, r) ==
    [date |-> date, documentType |-> documentType,
     s3Path |-> r.s3Path, error |-> r.error]

\* Mutant: the error of init() is swallowed and the run goes on.
StagehandInit_Swallowed ==
    /\ pc = "start"
    /\ \E ok \in BOOLEAN :
         /\ sessionOpened' = ok
         /\ pc' = "goto"
         /\ caught' = IF ok THEN caught ELSE "init"
    /\ UNCHANGED <<request, response, constructed, lastEnv, uploads,
                   config, navigated, now, dates, di, ti, results, ret,
                   closeAttempts, closeLogged, dispatched, lastCall, objects,
                   pendingDownload>>

\* Line 191: this.sessionInfo = await this.stagehand.init()
StagehandInit ==
    /\ pc = "start"
    /\ \E ok \in BOOLEAN :
         IF ok
         THEN /\ sessionOpened' = TRUE
              /\ pc' = "goto"
              /\ caught' = caught
         ELSE /\ sessionOpened' = sessionOpened
              /\ pc' = "catch"
              /\ caught' = "init"
    /\ UNCHANGED <<request, response, constructed, lastEnv, uploads,
                   config, navigated,
                   now, dates, di, ti, results, ret, closeAttempts,
                   closeLogged, dispatched, lastCall, objects, pendingDownload>>

\* Lines 195-208: page.goto, the settle wait, generateDateRange.
Navigate ==
    /\ pc = "goto"
    /\ now' = now + 1
    /\ navigated' = TRUE
    /\ \E outcome \in {"ok", "goto", "wait"} :
         IF outcome = "ok"
         THEN /\ dates' = generateDateRange(config.startDate, config.endDate)
              /\ pc' = IF dates' # << >> /\ config.documentTypes # << >>
                       THEN "loop" ELSE "close"
              /\ caught' = caught
         ELSE /\ dates' = dates
              /\ pc' = "catch"
              /\ caught' = outcome
    /\ UNCHANGED <<request, response, constructed, lastEnv, uploads,
                   config, di, ti, results, ret, sessionOpened, closeAttempts,
                   closeLogged, dispatched, lastCall, objects, pendingDownload>>

\* Lines 214-221: one call of scrapeSingleDay and the push of its result.
ScrapeUnit ==
    /\ pc = "loop"
    /\ HasUnit(di, ti)
    /\ \E env \in Envs :
         LET date         == dates[di]
             documentType == config.documentTypes[ti]
             call == scrapeSingleDay(config.county, date, documentType, now, env)
         IN  /\ results' = Append(results,
                                  ResultEntry(date, documentType, call.returned))
             /\ lastCall' = [steps |-> call.steps, returned |-> <<call.returned>>]
             /\ objects' = objects \o call.put
             /\ pendingDownload' = (pendingDownload \/ call.orphaned)
    /\ dispatched' = Append(dispatched, <<di, ti>>)
    /\ pc' = "delay"
    /\ UNCHANGED <<request, response, constructed, lastEnv, uploads,
                   config, navigated,
                   now, dates, di, ti, ret, caught, sessionOpened,
                   closeAttempts, closeLogged>>

\* Line 224 and the loop headers: the delay between units, then the next
\* position of the loops.
InterUnitDelay ==
    /\ pc = "delay"
    /\ now' = now + 1
    /\ lastCall' = NoCall
    /\ \E ok \in BOOLEAN :
         IF ok
         THEN /\ di' = NextPosition(di, ti)[1]
              /\ ti' = NextPosition(di, ti)[2]
              /\ pc' = IF HasUnit(di', ti') THEN "loop" ELSE "close"
              /\ caught' = caught
         ELSE /\ di' = di
              /\ ti' = ti
              /\ pc' = "catch"
              /\ caught' = "delay"
    /\ UNCHANGED <<request, response, constructed, lastEnv, uploads,
                   config, navigated,
                   dates, results, ret, sessionOpened, closeAttempts,
                   closeLogged, dispatched, objects, pendingDownload>>

\* Lines 228-243: the summary, stagehand.close(), the return.
CloseSession ==
    /\ pc = "close"
    /\ closeAttempts' = closeAttempts + 1
    /\ \E ok \in BOOLEAN :
         IF ok
         THEN /\ ret' = <<ReturnSuccess(results)>>
              /\ pc' = "done"
              /\ caught' = caught
         ELSE /\ ret' = ret
              /\ pc' = "catch"
              /\ caught' = "close"
    /\ UNCHANGED <<request, response, constructed, lastEnv, uploads,
                   config, navigated,
                   now, dates, di, ti, results, sessionOpened,
                   closeLogged, dispatched, lastCall, objects, pendingDownload>>

\* Lines 245-263: the catch: stagehand.close() in its own try, the return.
CatchClose ==
    /\ pc = "catch"
    /\ closeAttempts' = closeAttempts + 1
    /\ \E ok \in BOOLEAN : closeLogged' = ~ok
    /\ ret' = <<ReturnFailure(results)>>
    /\ pc' = "done"
    /\ UNCHANGED <<request, response, constructed, lastEnv, uploads,
                   config, navigated,
                   now, dates, di, ti, results, caught, sessionOpened,
                   dispatched, lastCall, objects, pendingDownload>>

\* The download promise of line 141 rejects (its 30 s timeout) while no
\* handler is attached to it: Node raises the unhandled rejection as an
\* uncaught exception and the process ends, unless the promise settles
\* only after execute() has returned.
UnhandledRejection ==
    /\ pendingDownload
    /\ pc \in {"loop", "delay", "close", "catch"}
    /\ pc' = "crashed"
    /\ UNCHANGED <<request, response, constructed, lastEnv, uploads,
                   config, navigated,
                   now, dates, di, ti, results, ret, caught,
                   sessionOpened, closeAttempts, closeLogged, dispatched,
                   lastCall, objects, pendingDownload>>

Next ==
    \/ StagehandInit
    \/ Navigate
    \/ ScrapeUnit
    \/ InterUnitDelay
    \/ CloseSession
    \/ CatchClose
    \/ UnhandledRejection

Spec == Init /\ [][Next]_vars

\* --------------------------------------------------------------- handler

\* z.number().min(1).max(365) and the default of daysBack.
MinDaysBack == 1
MaxDaysBack == 365
DefaultDaysBack == 30

\* z.array(z.string()).default(["DEED"])
DefaultDocumentTypes == <<DEED>>

\* Mutant: the schema has no lower limit for daysBack.
RequestSchemaAccepts_NoMinimum(body) ==
    body.daysBack # << >> => body.daysBack[1] <= MaxDaysBack

\* RequestSchema.parse(body) does not throw: startDate, endDate,
\* documentTypes and county are of the declared types in every body of the
\* model, daysBack is a number or is absent.
RequestSchemaAccepts(body) ==
    body.daysBack # << >> =>
        (body.daysBack[1] >= MinDaysBack /\ body.daysBack[1] <= MaxDaysBack)

\* The value of RequestSchema.parse(body): the defaults filled in.
RequestSchemaParse(body) ==
    [body EXCEPT
        !.documentTypes = IF @ = << >> THEN <<DefaultDocumentTypes>> ELSE @,
        !.county        = IF @ = << >> THEN <<King>> ELSE @]

\* The date strings of lines 100-101.
FormatRequestDate(date) ==
    padStart(NumToString(getMonth(date) + 1), 2) \o <<"/">>
        \o padStart(NumToString(getDate(date)), 2) \o <<"/">>
        \o NumToString(getFullYear(date))

\* Lines 86-110: the configuration of a parsed body, at clock reading t.
ConfigOf(body, t) ==
    LET daysBack == IF body.daysBack # << >> /\ body.daysBack[1] # 0
                    THEN body.daysBack[1] ELSE DefaultDaysBack
        end      == t \div TicksPerDay
        start    == setDate(end, getDate(end) - daysBack)
        explicit == Truthy(body.startDate) /\ Truthy(body.endDate)
    IN  [startDate     |-> IF explicit THEN body.startDate[1]
                           ELSE FormatRequestDate(start),
         endDate       |-> IF explicit THEN body.endDate[1]
                           ELSE FormatRequestDate(end),
         documentTypes |-> body.documentTypes[1],
         county        |-> body.county[1]]

\* Bodies that name both dates, with and without a daysBack out of range.
ExplicitBodies ==
    {[startDate |-> <<c.startDate>>, endDate |-> <<c.endDate>>,
      daysBack |-> db, documentTypes |-> <<c.documentTypes>>,
      county |-> <<c.county>>] :
        c \in {k \in Configs : Planned(k) <= MaxUnits}, db \in {<< >>, <<366>>}}

\* Bodies that name both dates and a daysBack at a limit of the schema.
BoundaryBodies ==
    {[startDate |-> <<c.startDate>>, endDate |-> <<c.endDate>>,
      daysBack |-> db, documentTypes |-> <<c.documentTypes>>,
      county |-> <<c.county>>] :
        c \in {k \in Configs : Planned(k) = 0}, db \in {<<1>>, <<365>>}}

\* Bodies that name no dates: daysBack absent, 0, 1 and above the limit
\* of the schema; documentTypes absent or the empty array.
RelativeBodies ==
    {[startDate |-> << >>, endDate |-> << >>, daysBack |-> db,
      documentTypes |-> ts, county |-> << >>] :
        db \in {<< >>, <<0>>, <<1>>, <<366>>},
        ts \in {<< >>, << << >> >>}}

\* The units a body asks for.
UnitsAsked(body) ==
    LET cfg == ConfigOf(RequestSchemaParse(body), StartClock)
    IN  Len(generateDateRange(cfg.startDate, cfg.endDate))
            * Len(cfg.documentTypes)

Requests ==
    {[method |-> m, body |-> b] :
        m \in {"POST", "GET"},
        b \in {x \in ExplicitBodies \cup BoundaryBodies \cup RelativeBodies :
                  RequestSchemaAccepts(x) => UnitsAsked(x) <= MaxUnits}}

HandlerInit ==
    /\ request \in Requests
    /\ response = << >>
    /\ constructed = FALSE
    /\ config = << >>
    /\ pc = "request"
    /\ now = StartClock
    /\ dates = << >>
    /\ di = 1
    /\ ti = 1
    /\ results = << >>
    /\ ret = << >>
    /\ caught = "none"
    /\ sessionOpened = FALSE
    /\ navigated = FALSE
    /\ closeAttempts = 0
    /\ closeLogged = FALSE
    /\ dispatched = << >>
    /\ lastCall = NoCall
    /\ objects = << >>
    /\ pendingDownload = FALSE
    /\ lastEnv = << >>
    /\ uploads = << >>

\* res.status(code).json({ok, ...})
Response(code, ok) == <<[status |-> code, ok |-> ok]>>

\* Lines 76-115: the method check, the validation, the configuration and
\* new LandmarkScraper(config).
HandleRequest ==
    /\ pc = "request"
    /\ IF request.method # "POST"
       THEN /\ response' = <<[status |-> 405]>>
            /\ pc' = "responded"
            /\ UNCHANGED <<config, constructed>>
       ELSE IF ~RequestSchemaAccepts(request.body)
       THEN /\ response' = Response(400, FALSE)
            /\ pc' = "responded"
            /\ UNCHANGED <<config, constructed>>
       ELSE /\ config' = ConfigOf(RequestSchemaParse(request.body), now)
            /\ constructed' = TRUE
            /\ pc' = "start"
            /\ response' = response
    /\ UNCHANGED <<request, lastEnv, uploads, navigated, now, dates, di, ti, results,
                   ret, caught, sessionOpened, closeAttempts, closeLogged,
                   dispatched, lastCall, objects, pendingDownload>>

\* Lines 116-132: execute() has returned; the status from result.success.
Respond ==
    /\ pc = "done"
    /\ response' = IF ret[1].success THEN Response(200, TRUE)
                   ELSE Response(500, FALSE)
    /\ pc' = "responded"
    /\ UNCHANGED <<request, constructed, lastEnv, uploads, config, navigated, now,
                   dates, di, ti, results, ret, caught, sessionOpened,
                   closeAttempts, closeLogged, dispatched, lastCall, objects,
                   pendingDownload>>

HandlerNext ==
    \/ HandleRequest
    \/ StagehandInit
    \/ Navigate
    \/ ScrapeUnit
    \/ InterUnitDelay
    \/ CloseSession
    \/ CatchClose
    \/ UnhandledRejection
    \/ Respond

HandlerSpec == HandlerInit /\ [][HandlerNext]_vars

\* --------------------------------------------- uploadFile, by two runs

\* Runs of execute() for one configuration that share the bucket: two
\* requests with the same body, each served by its own process.
Runs == {1, 2}

\* Calls of uploadFile and clock ticks followed.
MaxUploads == 3
MaxTicks == 2

UploadInit ==
    /\ config \in {c \in Configs : Planned(c) <= MaxUnits}
    /\ pc = "uploading"
    /\ now = StartClock
    /\ dates = generateDateRange(config.startDate, config.endDate)
    /\ di = 1
    /\ ti = 1
    /\ results = << >>
    /\ ret = << >>
    /\ caught = "none"
    /\ sessionOpened = TRUE
    /\ navigated = TRUE
    /\ closeAttempts = 0
    /\ closeLogged = FALSE
    /\ dispatched = << >>
    /\ lastCall = NoCall
    /\ objects = << >>
    /\ pendingDownload = FALSE
    /\ request = NoRequest
    /\ response = << >>
    /\ constructed = TRUE
    /\ lastEnv = << >>
    /\ uploads = << >>

\* Line 164 in one of the runs: uploadFile for one of the units, at the
\* clock reading now.  The store accepts the object or raises an error.  A
\* run has the delay of line 224 between two of its units, so it uploads at
\* most once per clock reading.
UploadFileCall ==
    /\ pc = "uploading"
    /\ Len(uploads) < MaxUploads
    /\ \E run \in Runs, d \in 1..Len(dates), t \in 1..Len(config.documentTypes),
          sendError \in {<< >>, <<TimeoutMessage>>} :
         LET fileName == fileNameOf(config.county, config.documentTypes[t], dates[d])
             up       == uploadFile(fileName, now, sendError)
         IN  /\ \A k \in 1..Len(uploads) :
                   uploads[k].run = run => uploads[k].at < now
             /\ IF up.threw
                THEN UNCHANGED <<uploads, objects>>
                ELSE /\ uploads' = Append(uploads,
                             [run |-> run, at |-> now, fileName |-> fileName,
                              locator |-> up.value])
                     /\ objects' = Append(objects, S3Key(fileName, now))
    /\ UNCHANGED <<request, response, constructed, lastEnv, config, pc, now,
                   dates, di, ti, results, ret, caught, sessionOpened,
                   navigated, closeAttempts, closeLogged, dispatched, lastCall,
                   pendingDownload>>

\* The clock advances.
ClockTick ==
    /\ pc = "uploading"
    /\ now < StartClock + MaxTicks
    /\ now' = now + 1
    /\ UNCHANGED <<request, response, constructed, lastEnv, uploads, config,
                   pc, dates, di, ti, results, ret, caught, sessionOpened,
                   navigated, closeAttempts, closeLogged, dispatched, lastCall,
                   objects, pendingDownload>>

UploadNext ==
    \/ UploadFileCall
    \/ ClockTick

UploadSpec == UploadInit /\ [][UploadNext]_vars

\* ------------------------------------------- generateDateRange, alone

\* generateDateRange for any two days of one run of the calendar.
RangeInit ==
    /\ \E r \in 1..Len(Calendar) :
       \E i, j \in 1..Len(Calendar[r]) :
           config = [startDate |-> Calendar[r][i], endDate |-> Calendar[r][j],
                     documentTypes |-> << >>, county |-> King]
    /\ pc = "range"
    /\ now = StartClock
    /\ dates = << >>
    /\ di = 1
    /\ ti = 1
    /\ results = << >>
    /\ ret = << >>
    /\ caught = "none"
    /\ sessionOpened = FALSE
    /\ navigated = FALSE
    /\ closeAttempts = 0
    /\ closeLogged = FALSE
    /\ dispatched = << >>
    /\ lastCall = NoCall
    /\ objects = << >>
    /\ pendingDownload = FALSE
    /\ request = NoRequest
    /\ response = << >>
    /\ constructed = TRUE
    /\ lastEnv = << >>
    /\ uploads = << >>

\* Line 206: const dates = this.generateDateRange(startDate, endDate)
ComputeRange ==
    /\ pc = "range"
    /\ dates' = generateDateRange(config.startDate, config.endDate)
    /\ pc' = "ranged"
    /\ UNCHANGED <<request, response, constructed, lastEnv, uploads, config,
                   now, di, ti, results, ret, caught, sessionOpened,
                   navigated, closeAttempts, closeLogged, dispatched, lastCall,
                   objects, pendingDownload>>

RangeNext == ComputeRange

RangeSpec == RangeInit /\ [][RangeNext]_vars

\* --------------------------------------------- scrapeSingleDay, alone

\* One call of scrapeSingleDay: a unit of a configuration, and what the
\* page and the bucket will do during the call.
UnitInit ==
    /\ config \in {c \in Configs : Planned(c) >= 1 /\ Planned(c) <= MaxUnits}
    /\ pc = "unit"
    /\ now = StartClock
    /\ dates = generateDateRange(config.startDate, config.endDate)
    /\ di \in 1..Len(dates)
    /\ ti \in 1..Len(config.documentTypes)
    /\ results = << >>
    /\ ret = << >>
    /\ caught = "none"
    /\ sessionOpened = TRUE
    /\ navigated = TRUE
    /\ closeAttempts = 0
    /\ closeLogged = FALSE
    /\ dispatched = << >>
    /\ lastCall = NoCall
    /\ objects = << >>
    /\ pendingDownload = FALSE
    /\ request = NoRequest
    /\ response = << >>
    /\ constructed = TRUE
    /\ lastEnv \in {<<env>> : env \in Envs}
    /\ uploads = << >>

\* Line 214: const result = await this.scrapeSingleDay(page, date, docType)
ScrapeOnce ==
    /\ pc = "unit"
    /\ LET call == scrapeSingleDay(config.county, dates[di],
                                   config.documentTypes[ti], now, lastEnv[1])
       IN  /\ lastCall' = [steps |-> call.steps, returned |-> <<call.returned>>]
           /\ objects' = objects \o call.put
           /\ pendingDownload' = call.orphaned
    /\ pc' = "unitDone"
    /\ UNCHANGED <<request, response, constructed, lastEnv, uploads, config,
                   now, dates, di, ti, results, ret, caught, sessionOpened,
                   navigated, closeAttempts, closeLogged, dispatched>>

UnitNext == ScrapeOnce

UnitSpec == UnitInit /\ [][UnitNext]_vars

\* ================================================================ claims

Returned == ret # << >>
Result == ret[1]

\* The work units of a configuration: the calendar days from startDate to
\* endDate, each with every document type in the order supplied.
ExpectedUnits(cfg) ==
    LET days  == CalendarDays(cfg)
        types == cfg.documentTypes
    IN  [k \in 1..(Len(days) * Len(types)) |->
            [date         |-> days[((k - 1) \div Len(types)) + 1],
             documentType |-> types[((k - 1) % Len(types)) + 1]]]

\* The three outcomes of an entry of results.
IsArchived(e) == e.s3Path # << >> /\ e.s3Path # <<NoRecords>>
IsNoRecords(e) == e.s3Path = <<NoRecords>>
IsFailed(e) == e.error # << >>

NumberOf(rs, P(_)) == Cardinality({k \in 1..Len(rs) : P(rs[k])})

\* A failed unit whose error message is the empty string.
IsFailedSilently(e) == e.error = << << >> >>

\* No error of open, navigation or a delay ended the loop early.
LoopCompleted == caught \in {"none", "close"}

\* ---- C1
\* C1 as stated: in every result execute() returns, successful + failed
\* equals total.
C1_SumIsTotal ==
    Returned =>
        Result.summary.successful + Result.summary.failed = Result.summary.total

\* C1 amended: in every result execute() returns, successful + failed equals
\* total less the number of failed units whose error message is empty, plus
\* one when the result reports success = false.
C1_SumIsTotalAdjusted ==
    Returned =>
        Result.summary.successful + Result.summary.failed
            = Result.summary.total
              - NumberOf(Result.results, IsFailedSilently)
              + (IF Result.success THEN 0 ELSE 1)

\* A run that failed after units were recorded, one of them failed with an
\* empty message.
C1_Witness ==
    /\ Returned
    /\ ~Result.success
    /\ Result.summary.total >= 2
    /\ NumberOf(Result.results, IsFailedSilently) >= 1

\* ---- C2
\* C2 as stated: the reported total is the number of planned units in every
\* run, failed sessions included.
C2_TotalIsPlanned ==
    Returned => Result.summary.total = Planned(config)

\* C2 amended: the reported total is the number of entries of the returned
\* results, which are the results accumulated (none discarded); it is at
\* most the number of planned units, and equal to it when open, navigation
\* and every delay between units succeeded.
C2_TotalIsRecorded ==
    Returned =>
        /\ Result.results = results
        /\ Result.summary.total = Len(results)
        /\ Result.summary.total <= Planned(config)
        /\ LoopCompleted => Result.summary.total = Planned(config)

\* A run that a failing delay ended with some but not all units recorded.
C2_Witness ==
    /\ Returned
    /\ caught = "delay"
    /\ Result.summary.total >= 1
    /\ Result.summary.total < Planned(config)

\* ---- C3
\* C3 as stated: whenever the session opened, the returned results have one
\* entry per planned unit.
C3_LengthIsPlannedOnceOpen ==
    (Returned /\ sessionOpened) => Len(Result.results) = Planned(config)

\* C3 amended: whenever open, the navigation and every delay between units
\* succeeded, the returned results have one entry per planned unit (every
\* calendar day from start to end, times the document types); otherwise
\* they have fewer or as many.
C3_LengthIsPlannedOnceLooped ==
    Returned =>
        /\ LoopCompleted => Len(Result.results) = Planned(config)
        /\ Len(Result.results) <= Planned(config)

\* A completed run over two days and two document types.
C3_Witness ==
    /\ Returned
    /\ LoopCompleted
    /\ Len(dates) = 2
    /\ Len(Result.results) = 4

\* ---- C4
\* C4: if opening the session fails, nothing is navigated to, no unit is
\* dispatched and nothing uploaded, and the result returned is empty with
\* summary total 0, successful 0, failed 1.
C4_OpenFailure ==
    caught = "init" =>
        /\ ~navigated
        /\ dispatched = << >>
        /\ objects = << >>
        /\ Returned =>
             /\ ~Result.success
             /\ Result.results = << >>
             /\ Result.summary = [total |-> 0, successful |-> 0, failed |-> 1]

\* The open failed for a configuration of four planned units and execute()
\* returned.
C4_Witness ==
    /\ Returned
    /\ caught = "init"
    /\ Planned(config) = 4

\* ---- C5
\* C5 as stated: a run whose session opened has attempted close exactly
\* once when execute() returns.
C5_CloseOncePerOpen ==
    (pc = "done" /\ sessionOpened) => closeAttempts = 1

\* ---- C6
\* C6: an attempt to close leaves the accumulated results as they are; a
\* failing close is not re-raised: the close of the normal path hands over
\* to the catch, the close of the catch is logged and execute() returns, and
\* the results returned are the results accumulated before the close.
C6_CloseKeepsResults ==
    [][closeAttempts' > closeAttempts =>
          /\ results' = results
          /\ pc' \in {"done", "catch"}
          /\ pc = "catch" => pc' = "done"
          /\ pc' = "done" => (ret' # << >> /\ ret'[1].results = results)]_vars

\* Both closes failed after units were recorded.
C6_Witness ==
    /\ pc = "done"
    /\ caught = "close"
    /\ closeLogged
    /\ closeAttempts = 2
    /\ Len(Result.results) >= 2

\* ---- C7
\* C7: at every point the results are a prefix of the work units in order
\* (dates ascending, document types in the order supplied, duplicates
\* kept), and the positions dispatched to the unit scraper are the first
\* positions of that order, each once.
C7_ResultsInUnitOrder ==
    LET units == ExpectedUnits(config)
        nT    == Len(config.documentTypes)
    IN  /\ Len(results) <= Len(units)
        /\ \A k \in 1..Len(results) :
             /\ results[k].date = units[k].date
             /\ results[k].documentType = units[k].documentType
        /\ Len(dispatched) = Len(results)
        /\ \A k \in 1..Len(dispatched) :
             dispatched[k] = <<((k - 1) \div nT) + 1, ((k - 1) % nT) + 1>>

\* Four units over two days were recorded, the first failed.
C7_Witness ==
    /\ Len(results) = 4
    /\ results[1].date # results[3].date
    /\ results[1].documentType # results[2].documentType
    /\ IsFailed(results[1])

\* ---- C8
\* C8 as stated: an exception of a step of the unit script becomes the
\* Failed outcome of that unit and nothing else: the call returns it, the
\* run is not aborted, and a run that no error of open, navigation, delay
\* or close ends has an outcome for every unit.
C8_UnitErrorsContained ==
    /\ pc # "crashed"
    /\ (lastCall.returned # << >> /\ ~lastCall.returned[1].success) =>
          /\ pc = "delay"
          /\ IsFailed(results[Len(results)])
          /\ results[Len(results)].s3Path = << >>
    /\ (pc = "done" /\ LoopCompleted) => Len(results) = Planned(config)

\* ---- C9
\* C9 as stated: when the run completes normally, successful is the number
\* of Archived and NoRecords units and failed is the number of Failed units.
C9_CountsByOutcome ==
    (Returned /\ Result.success) =>
        /\ Result.summary.successful
             = NumberOf(Result.results, IsArchived)
               + NumberOf(Result.results, IsNoRecords)
        /\ Result.summary.failed = NumberOf(Result.results, IsFailed)

\* ---- C10
\* C10 as stated: when an error of the navigation or of a delay escapes the
\* loop, execute() closes the session and returns the partial results
\* unchanged, with success = false and failed = the Failed units + 1.
C10_AbortCounts ==
    (Returned /\ caught \in {"goto", "wait", "delay"}) =>
        /\ closeAttempts >= 1
        /\ ~Result.success
        /\ Result.results = results
        /\ Result.summary.failed = NumberOf(Result.results, IsFailed) + 1
\* ---- C11
\* C11: a POST request whose body fails validation (daysBack outside
\* 1..365) is answered 400, and a request of another method is answered 405;
\* for neither is a scraper constructed, execute() invoked or a session
\* touched.
C11_InvalidRequestRejected ==
    LET notPost == request.method # "POST"
        invalid == /\ request.body.daysBack # << >>
                   /\ (request.body.daysBack[1] < 1 \/ request.body.daysBack[1] > 365)
    IN  (notPost \/ invalid) =>
            /\ pc \in {"request", "responded"}
            /\ ~constructed
            /\ ~sessionOpened /\ ~navigated /\ closeAttempts = 0
            /\ ret = << >> /\ objects = << >>
            /\ pc = "responded" =>
                   /\ response # << >>
                   /\ response[1].status = IF notPost THEN 405 ELSE 400

\* A POST request that names both dates and a daysBack of 366 was answered.
C11_Witness ==
    /\ pc = "responded"
    /\ request.method = "POST"
    /\ request.body.daysBack = <<366>>
    /\ Truthy(request.body.startDate)
    /\ response = Response(400, FALSE)

\* ---- C12
\* C12: two calls of uploadFile that succeed for the same work unit (the
\* same file name), by one run or by two, return two distinct locators, and
\* the second object does not replace the first.
C12_DistinctLocators ==
    \A i, j \in 1..Len(uploads) :
        (i < j /\ uploads[i].fileName = uploads[j].fileName) =>
            /\ uploads[i].locator # uploads[j].locator
            /\ objects[i] # objects[j]

\* ---- C13
\* Where the two dates of a configuration are on the calendar.
CalendarSpan(cfg) ==
    CHOOSE p \in (1..Len(Calendar)) \X (1..6) \X (1..6) :
        /\ p[2] <= Len(Calendar[p[1]]) /\ p[3] <= Len(Calendar[p[1]])
        /\ Calendar[p[1]][p[2]] = cfg.startDate
        /\ Calendar[p[1]][p[3]] = cfg.endDate

\* C13: for startDate s not after endDate e, generateDateRange yields
\* exactly e - s + 1 dates, the calendar days from s to e in ascending
\* order, the first s and the last e.
C13_RangeInclusive ==
    LET span == CalendarSpan(config)
        s    == span[2]
        e    == span[3]
    IN  (pc = "ranged" /\ s <= e) =>
            /\ Len(dates) = e - s + 1
            /\ dates = SubSeq(Calendar[span[1]], s, e)
            /\ dates[1] = config.startDate
            /\ dates[Len(dates)] = config.endDate

\* The range of four days over the leap day and the end of February.
C13_Witness ==
    /\ pc = "ranged"
    /\ config.startDate = MDY(<<"0", "2">>, <<"2", "8">>, Y2024)
    /\ Len(dates) = 4
    /\ dates[2] = MDY(<<"0", "2">>, <<"2", "9">>, Y2024)
    /\ dates[4] = MDY(<<"0", "3">>, <<"0", "2">>, Y2024)

\* ---- C14
\* C14: every entry of results is of exactly one variant: a locator and no
\* error, the no-records marker and no error, or an error message (the
\* empty message included) and no locator; none has a locator and an
\* error, none has neither.
C14_OneVariantPerEntry ==
    \A k \in 1..Len(results) :
        LET e == results[k]
            archived  == /\ e.s3Path # << >>
                         /\ SubSeq(e.s3Path[1], 1, Len(S3Scheme)) = S3Scheme
                         /\ e.error = << >>
            noRecords == e.s3Path = <<NoRecords>> /\ e.error = << >>
            failed    == e.s3Path = << >> /\ e.error # << >>
        IN  /\ archived \/ noRecords \/ failed
            /\ ~(archived /\ noRecords)
            /\ ~(e.s3Path # << >> /\ e.error # << >>)
            /\ ~(e.s3Path = << >> /\ e.error = << >>)

\* Results with an archived unit, a unit without records and a unit that
\* failed with the empty message.
C14_Witness ==
    /\ \E k \in 1..Len(results) : IsArchived(results[k])
    /\ \E k \in 1..Len(results) : IsNoRecords(results[k])
    /\ \E k \in 1..Len(results) : IsFailedSilently(results[k])

\* ---- C15
\* The call whose result was pushed last ended in uploadFile throwing.
UploadJustFailed ==
    /\ lastCall.returned # << >>
    /\ ~lastCall.returned[1].success
    /\ lastCall.steps[Len(lastCall.steps)] = "uploadFile"

\* The locator of an object of the bucket.
LocatorOf(key) == S3Scheme \o BucketName \o <<"/">> \o key

\* Sequence s ends with sequence x.
EndsWith(s, x) ==
    Len(x) <= Len(s) /\ SubSeq(s, Len(s) - Len(x) + 1, Len(s)) = x

\* C15: a unit whose upload fails is recorded as failed, with the wrapped
\* message and without a locator, and nothing of it is in the bucket; an
\* entry with a locator names an object that is in the bucket under the
\* file name of the entry's unit.
C15_UploadFailureReported ==
    /\ UploadJustFailed =>
           LET e == results[Len(results)]
           IN  /\ IsFailed(e) /\ ~IsArchived(e)
               /\ SubSeq(e.error[1], 1, Len(UploadErrorPrefix)) = UploadErrorPrefix
               /\ Len(e.error[1]) > Len(UploadErrorPrefix)
               /\ \A j \in 1..Len(objects) :
                      objects[j] # S3Key(fileNameOf(config.county, e.documentType, e.date), now)
    /\ \A k \in 1..Len(results) :
           IsArchived(results[k]) =>
               \E j \in 1..Len(objects) :
                   /\ results[k].s3Path[1] = LocatorOf(objects[j])
                   /\ EndsWith(objects[j],
                               <<"-">> \o fileNameOf(config.county,
                                                     results[k].documentType,
                                                     results[k].date))

\* The upload of the second unit failed after the first unit was archived.
C15_Witness ==
    /\ UploadJustFailed
    /\ Len(results) = 2
    /\ IsArchived(results[1])
    /\ IsFailed(results[2])
    /\ Len(objects) = 1

\* ---- C16
\* The steps of an export: the click on Export and all that follows it.
ExportSteps ==
    {"exportClick", "waitForDownload", "modalClick", "download",
     "readStream", "uploadFile", "goBack"}

NoRecordsResult == [success |-> TRUE, s3Path |-> <<NoRecords>>, error |-> << >>]

\* Step a of the sequence steps comes before step b.
Before(steps, a, b) ==
    \E i, j \in 1..Len(steps) : i < j /\ steps[i] = a /\ steps[j] = b

\* C16: a call that finds the "no records found" text visible, or else
\* finds the Export link not visible, returns the no-records result without
\* any step of an export, and puts nothing in the bucket; a call clicks
\* Export only after both checks, in order, and neither signal fired.
C16_EmptyResultSkipsExport ==
    pc = "unitDone" =>
        LET env     == lastEnv[1]
            steps   == lastCall.steps
            textSeen   == Ran(steps, "noRecordsVisible") /\ env.noRecords = "visible"
            linkAbsent == /\ Ran(steps, "exportVisible")
                          /\ env.throwAt # "exportVisible"
                          /\ ~env.export
        IN  /\ (textSeen \/ linkAbsent) =>
                   /\ lastCall.returned = <<NoRecordsResult>>
                   /\ \A k \in 1..Len(steps) : steps[k] \notin ExportSteps
                   /\ objects = << >>
            /\ Ran(steps, "exportClick") =>
                   /\ Before(steps, "noRecordsVisible", "exportVisible")
                   /\ Before(steps, "exportVisible", "exportClick")
                   /\ env.noRecords # "visible"
                   /\ env.export

\* A call that found the text not visible and then the Export link not
\* visible.
C16_Witness ==
    /\ pc = "unitDone"
    /\ lastEnv[1].noRecords = "hidden"
    /\ ~lastEnv[1].export
    /\ lastCall.steps[Len(lastCall.steps)] = "exportVisible"
    /\ lastCall.returned = <<NoRecordsResult>>

\* ---- C17
\* C17: a call in which nothing raises an error but one of the two
\* visibility probes (of the "no records found" text, of the Export link)
\* does not end as a failed unit.
C17_ProbeErrorIsNegative ==
    pc = "unitDone" =>
        LET env == lastEnv[1]
            textProbeFailed == /\ env.noRecords = "throws"
                               /\ env.throwAt = "none"
            linkProbeFailed == env.throwAt = "exportVisible"
        IN  (textProbeFailed \/ linkProbeFailed) =>
                /\ lastCall.returned[1].success
                /\ lastCall.returned[1].error = << >>

\* ---- C18
\* execute() has a step to take.
Running == pc \in {"start", "goto", "loop", "delay", "close", "catch"}

\* C18: on every path execute() ends by returning an ExecutionResult: a run
\* that has no further step has returned one, whatever failed (the open,
\* the navigation, units, a delay, the close of either path).
C18_EndsByReturning ==
    ~Running =>
        /\ pc = "done"
        /\ Returned
        /\ Result.success \in BOOLEAN
        /\ Result.summary.total = Len(Result.results)

\* ---- C19
\* C19: in the result execute() returns, the objects written to the bucket
\* during the run are as many as the entries with a locator, and the locator
\* of each object is in exactly one entry.
C19_UploadsReported ==
    Returned =>
        /\ Len(objects) = NumberOf(Result.results, IsArchived)
        /\ \A j \in 1..Len(objects) :
               Cardinality({k \in 1..Len(Result.results) :
                               Result.results[k].s3Path = <<LocatorOf(objects[j])>>}) = 1

\* ---- C20
\* C20: execute() returns success = true exactly when none of the open, the
\* navigation, a delay between units and the close raised an error, and
\* success = false exactly when one of them did, whatever the outcomes of
\* the units; the handler answers 200 for the former and 500 for the
\* latter.
C20_SuccessIsSessionLevel ==
    /\ Returned =>
           /\ Result.success <=> caught = "none"
           /\ ~Result.success <=> caught \in {"init", "goto", "wait", "delay", "close"}
           /\ Result.success => (sessionOpened /\ navigated /\ closeAttempts = 1)
    /\ (pc = "responded" /\ constructed) =>
           /\ Returned
           /\ response[1].status = 200 <=> Result.success
           /\ response[1].status = 500 <=> ~Result.success
           /\ response[1].ok = Result.success

\* A run of two units that both failed was answered 200.
C20_Witness ==
    /\ pc = "responded"
    /\ response = Response(200, TRUE)
    /\ Len(Result.results) = 2
    /\ \A k \in 1..2 : IsFailed(Result.results[k])

====
